---- MODULE Spec2Model ----
(***************************************************************************)
(* dueDash: the token-based authentication layer (app/auth.py and the      *)
(* realtime copy of it in app/main.py) and the in-memory realtime          *)
(* ConnectionManager (app/main.py).                                        *)
(*                                                                         *)
(* The specifications of this module:                                      *)
(*   SpecAuth     the clock, the user directory, a token held by a client  *)
(*                and the two verification paths applied to held and to    *)
(*                arbitrary presented tokens;                              *)
(*   SpecManager  the ConnectionManager driven through its public methods  *)
(*                connect / disconnect / broadcast / broadcast_system;     *)
(*   SpecGateway  one websocket_endpoint task per connection, interleaved  *)
(*                at every await (FairGateway adds the scheduler's         *)
(*                fairness);                                               *)
(*   SpecApi      the HTTP endpoints signup, login and /todos.             *)
(***************************************************************************)
EXTENDS Integers, Sequences, FiniteSets, TLC

VARIABLES
    now,                \* the wall clock, in ticks (TicksPerSec ticks = 1 s)
    users,              \* the user table: set of rows [id, username, hashed_password]
    held,               \* the token a client holds: [tok, t, ttl, sub, afterExpiry]; tok is NoToken before the first issue
    heldExpired,        \* the held token has already been answered "Token has expired"
    last,               \* the answer to the request just handled: [op, tok, now, claims, http, ws]
    active_connections, \* ConnectionManager.active_connections, in insertion order
    accepted,           \* handles on which websocket.accept() has been called
    alive,              \* alive[ws]: the transport of ws can still be written to
    call,               \* the ConnectionManager call just made and what it did
    pc,                 \* pc[ws]: where the websocket_endpoint task of ws stands
    task,               \* task[ws]: the locals of that task and what it has done
    iter,               \* iter[ws]: the broadcast loop the task of ws is suspended in
    dk_entries,         \* the entries of the dict, removed ones included, in insertion order
    rx,                 \* rx[r][s]: the frames r received from the task of s, in order
    todos,              \* the todo table: set of rows [id, title, completed, user_id]
    next_id,            \* the next primary key of the todo table
    resp                \* the answer to the HTTP request just handled

authVars == <<now, users, held, heldExpired, last>>
mgrVars  == <<active_connections, accepted, alive, call>>
gwVars   == <<pc, task, iter, dk_entries, rx>>
apiVars  == <<todos, next_id, resp>>
vars     == <<now, users, held, heldExpired, last,
              active_connections, accepted, alive, call,
              pc, task, iter, dk_entries, rx,
              todos, next_id, resp>>

(***************************************************************************)
(* Bounds of the model.                                                    *)
(***************************************************************************)
TicksPerSec == 2        \* clock resolution below the second
MaxClock    == 4        \* the clock runs over 0..MaxClock ticks
MaxTTL      == 2        \* explicit lifetimes are 1..MaxTTL ticks
MaxExp      == 1        \* presented tokens carry exp in 0..MaxExp seconds
NumSockets  == 3        \* websocket handles 1..NumSockets
NumConns    == 2        \* connections opened on /ws/todos: handles 1..NumConns
MaxTodos    == 2        \* todos created, all users together

(***************************************************************************)
(* Configuration (app/auth.py, read from the environment).                 *)
(***************************************************************************)
ACCESS_TOKEN_EXPIRE_MINUTES == 30
SECRET_KEY == "configured-secret"
OtherKey   == "other-secret"

None == "None"          \* Python's None where a string is expected (dict.get)
NoRow == [id |-> 0]     \* Python's None where a table row is expected (.first())
NoToken == [wf |-> FALSE, key |-> None, claims |-> <<>>, none |-> TRUE]

Usernames == {"alice", "bob"}
Passwords == {"pw1", "pw2"}

(***************************************************************************)
(* python-jose, as called by the program.                                  *)
(***************************************************************************)
\* dict.get(k): the value, or None when the key is absent
Get(d, k) == IF k \in DOMAIN d THEN d[k] ELSE None

\* calendar.timegm(dt.utctimetuple()): a datetime as whole seconds; the
\* fraction of the second is dropped
timegm(t) == t \div TicksPerSec

\* timedelta(minutes=m) in ticks
minutes(m) == m * 60 * TicksPerSec

\* jwt.encode: datetime claims become whole seconds, the claim set is signed
jwt_encode(claims, key) ==
    [wf     |-> TRUE,
     key    |-> key,
     claims |-> [k \in DOMAIN claims |->
                    IF k \in {"exp", "iat"} THEN timegm(claims[k]) ELSE claims[k]]]

\* mutant: a token expires already in the second of its exp claim
validate_exp_inclusive(claims, t) ==
    IF "exp" \notin DOMAIN claims THEN TRUE
    ELSE ~ (claims["exp"] <= timegm(t))

\* mutant: one second of leeway
validate_exp_leeway(claims, t) ==
    IF "exp" \notin DOMAIN claims THEN TRUE
    ELSE ~ (claims["exp"] + 1 < timegm(t))

\* _validate_exp of jwt.decode, at clock reading t (leeway 0)
validate_exp(claims, t) ==
    IF "exp" \notin DOMAIN claims THEN TRUE
    ELSE ~ (claims["exp"] < timegm(t))

\* mutant: the registered claims are validated before the signature
jwt_decode_exp_first(token, key, t) ==
    IF token.wf /\ ~ validate_exp(token.claims, t)
    THEN [exc |-> "ExpiredSignatureError"]
    ELSE IF ~ token.wf \/ token.key # key
    THEN [exc |-> "JWTError"]
    ELSE [exc |-> None, payload |-> token.claims]

\* jwt.decode(token, key, algorithms=[ALGORITHM]) at clock reading t:
\* the signature first, then the registered claims.  The claim sets of this
\* model carry an integer exp and a string sub and no nbf, aud or iss, so
\* JWTClaimsError is never raised.
jwt_decode(token, key, t) ==
    IF ~ token.wf \/ token.key # key
    THEN [exc |-> "JWTError"]
    ELSE IF ~ validate_exp(token.claims, t)
    THEN [exc |-> "ExpiredSignatureError"]
    ELSE [exc |-> None, payload |-> token.claims]

(***************************************************************************)
(* app/auth.py                                                             *)
(***************************************************************************)
get_password_hash(password) == <<"bcrypt", password>>

verify_password(plain_password, hashed_password) ==
    hashed_password = <<"bcrypt", plain_password>>

\* mutant: expires_delta is ignored, every token gets the default lifetime
create_access_token_default(data, expires_delta, clock) ==
    LET expire == clock + minutes(ACCESS_TOKEN_EXPIRE_MINUTES)
        to_encode == ("exp" :> expire) @@ ("iat" :> clock)
                     @@ ("type" :> "access") @@ data
    IN  jwt_encode(to_encode, SECRET_KEY)

\* expires_delta = 0 stands for a falsy argument (None or timedelta(0))
create_access_token(data, expires_delta, clock) ==
    LET expire == IF expires_delta # 0
                  THEN clock + expires_delta
                  ELSE clock + minutes(ACCESS_TOKEN_EXPIRE_MINUTES)
        to_encode == ("exp" :> expire) @@ ("iat" :> clock)
                     @@ ("type" :> "access") @@ data
    IN  jwt_encode(to_encode, SECRET_KEY)

get_user(db, username) ==
    IF \E u \in db : u.username = username
    THEN CHOOSE u \in db : u.username = username
    ELSE NoRow

Reject(kind, detail, headers) ==
    [ok |-> FALSE, status |-> 401, kind |-> kind, detail |-> detail,
     headers |-> headers]

credentials_exception ==
    [status |-> 401, detail |-> "Could not validate credentials",
     headers |-> "Bearer"]

\* mutant: the subject is extracted before the type tag is checked
verify_sub_first(token, t) ==
    LET d == jwt_decode(token, SECRET_KEY, t) IN
    IF d.exc = "ExpiredSignatureError"
    THEN Reject("Expired", "Token has expired", "Bearer")
    ELSE IF d.exc = "JWTError"
    THEN Reject("Malformed", credentials_exception.detail,
                credentials_exception.headers)
    ELSE IF Get(d.payload, "sub") = None
    THEN Reject("MissingSubject", credentials_exception.detail,
                credentials_exception.headers)
    ELSE IF Get(d.payload, "type") # "access"
    THEN Reject("WrongType", "Invalid token type", "Bearer")
    ELSE [ok |-> TRUE, subject |-> d.payload["sub"]]

\* the try block of get_current_user: decode, type tag, subject
verify(token, t) ==
    LET d == jwt_decode(token, SECRET_KEY, t) IN
    IF d.exc = "ExpiredSignatureError"
    THEN Reject("Expired", "Token has expired", "Bearer")
    ELSE IF d.exc = "JWTError"
    THEN Reject("Malformed", credentials_exception.detail,
                credentials_exception.headers)
    ELSE IF Get(d.payload, "type") # "access"
    THEN Reject("WrongType", "Invalid token type", "Bearer")
    ELSE IF Get(d.payload, "sub") = None
    THEN Reject("MissingSubject", credentials_exception.detail,
                credentials_exception.headers)
    ELSE [ok |-> TRUE, subject |-> d.payload["sub"]]

get_current_user(token, db, t) ==
    LET v == verify(token, t) IN
    IF ~ v.ok THEN v
    ELSE IF get_user(db, v.subject) = NoRow
    THEN Reject("UnknownSubject", credentials_exception.detail,
                credentials_exception.headers)
    ELSE [ok |-> TRUE, user |-> get_user(db, v.subject)]

(***************************************************************************)
(* app/main.py: the realtime copy                                          *)
(***************************************************************************)
\* the body of the try block: what is returned or raised inside it
ws_try(token, db, t) ==
    LET d == jwt_decode(token, SECRET_KEY, t) IN
    IF d.exc # None
    THEN [raised |-> d.exc]
    ELSE IF Get(d.payload, "type") # "access"
    THEN [raised |-> "HTTPException", kind |-> "WrongType",
          detail |-> "Invalid token type"]
    ELSE IF Get(d.payload, "sub") = None
    THEN [raised |-> "HTTPException", kind |-> "MissingSubject",
          detail |-> "Invalid token"]
    ELSE IF get_user(db, d.payload["sub"]) = NoRow
    THEN [raised |-> "HTTPException", kind |-> "UnknownSubject",
          detail |-> "User not found"]
    ELSE [raised |-> None, user |-> get_user(db, d.payload["sub"])]

\* the except clauses, in order; an HTTPException raised inside the try
\* block is an Exception and is caught by the last clause
verify_token_and_get_user(token, db, t) ==
    LET r == ws_try(token, db, t) IN
    IF r.raised = None
    THEN [ok |-> TRUE, user |-> r.user]
    ELSE IF r.raised = "ExpiredSignatureError"
    THEN Reject("Expired", "Token has expired", None)
    ELSE IF r.raised = "JWTError"
    THEN Reject("Malformed", "Could not validate credentials", None)
    ELSE Reject(r.kind, "Invalid token", None)

(***************************************************************************)
(* Tokens a client can present.                                            *)
(***************************************************************************)
ExpValues == 0 .. MaxExp

\* a claim set with the optional claims present or absent (None, -1: absent)
Claims(sub, exp, type) ==
    (IF sub # None THEN "sub" :> sub ELSE <<>>)
    @@ (IF exp # -1 THEN "exp" :> exp ELSE <<>>)
    @@ (IF type # None THEN "type" :> type ELSE <<>>)
    @@ ("iat" :> 0)

ClaimSets ==
    { Claims(s, e, ty) : s \in Usernames \cup {None},
                         e \in ExpValues \cup {-1},
                         ty \in {"access", "refresh", None} }

Garbage == [wf |-> FALSE, key |-> None, claims |-> <<>>]

PresentedTokens ==
    { [wf |-> TRUE, key |-> k, claims |-> c] :
        k \in {SECRET_KEY, OtherKey}, c \in ClaimSets } \cup {Garbage}

(***************************************************************************)
(* SpecAuth                                                                *)
(***************************************************************************)
InitAuthVars ==
    /\ now = 0
    /\ users = {[id |-> 1, username |-> "alice",
                 hashed_password |-> get_password_hash("pw1")]}
    /\ held = [tok |-> NoToken, sub |-> None]
    /\ heldExpired = FALSE
    /\ last = [op |-> "none"]

\* time passes
Tick ==
    /\ now < MaxClock
    /\ now' = now + 1
    /\ last' = [op |-> "none"]
    /\ UNCHANGED <<users, held, heldExpired>>

\* POST /signup
signup(username, password) ==
    /\ get_user(users, username) = NoRow
    /\ users' = users \cup {[id |-> Cardinality(users) + 1,
                             username |-> username,
                             hashed_password |-> get_password_hash(password)]}
    /\ last' = [op |-> "none"]
    /\ UNCHANGED <<now, held, heldExpired>>

\* create_access_token(data={"sub": S}, expires_delta=T); the client keeps
\* the new token in place of the one it held
Issue(S, T) ==
    /\ held' = [tok |-> create_access_token([sub |-> S], T, now),
                t   |-> now,
                ttl |-> IF T # 0 THEN T ELSE minutes(ACCESS_TOKEN_EXPIRE_MINUTES),
                sub |-> S,
                afterExpiry |-> (heldExpired /\ held.sub = S)]
    /\ heldExpired' = FALSE
    /\ last' = [op |-> "none"]
    /\ UNCHANGED <<now, users>>

\* a token is presented on both transports at the current clock reading
Verify(tok) ==
    /\ last' = [op     |-> "verify",
                tok    |-> tok,
                now    |-> now,
                held   |-> (tok = held.tok),
                claims |-> verify(tok, now),
                http   |-> get_current_user(tok, users, now),
                ws     |-> verify_token_and_get_user(tok, users, now)]
    /\ heldExpired' = IF tok = held.tok
                      THEN heldExpired \/ (~ verify(tok, now).ok
                                           /\ verify(tok, now).kind = "Expired")
                      ELSE heldExpired
    /\ UNCHANGED <<now, users, held>>

VerifyHeld == held.tok # NoToken /\ Verify(held.tok)

VerifyPresented == \E tok \in PresentedTokens : Verify(tok)

(***************************************************************************)
(* app/main.py: ConnectionManager                                          *)
(***************************************************************************)
Sockets  == 1 .. NumSockets
NoSocket == 0           \* sender_websocket = None

\* the authenticated user behind each handle (a user may hold several)
UserOf(ws) == IF ws % 2 = 1 THEN "alice" ELSE "bob"

\* websocket_endpoint's relayed frame: f"{user.username}: {data}"
Frame(username, data) == username \o ": " \o data

\* the dict websocket -> username, as the sequence of its items in insertion
\* order
dict_keys(d) == { d[i].ws : i \in DOMAIN d }

dict_get(d, ws) ==
    IF ws \in dict_keys(d)
    THEN d[CHOOSE i \in DOMAIN d : d[i].ws = ws].username
    ELSE None

\* d[ws] = username: a new key goes to the end, an existing key keeps its place
dict_set(d, ws, username) ==
    IF ws \in dict_keys(d)
    THEN [i \in DOMAIN d |-> IF d[i].ws = ws
                             THEN [ws |-> ws, username |-> username] ELSE d[i]]
    ELSE Append(d, [ws |-> ws, username |-> username])

\* d.pop(ws, None): the dict without the key
dict_without(d, ws) == SelectSeq(d, LAMBDA item : item.ws # ws)

\* what one call has sent so far: the frames each handle received and the
\* handles whose send raised
NothingSent == [received |-> [ws \in Sockets |-> <<>>], disconnected |-> <<>>]

\* mutant: the send is not guarded, the first failing send ends the loop
RECURSIVE send_loop_abort(_, _, _, _, _, _)
send_loop_abort(items, i, text, sender_websocket, writable, sent) ==
    IF i > Len(items) THEN sent
    ELSE LET websocket == items[i].ws IN
         IF websocket = sender_websocket
         THEN send_loop_abort(items, i + 1, text, sender_websocket, writable, sent)
         ELSE IF writable[websocket]
         THEN send_loop_abort(items, i + 1, text, sender_websocket, writable,
                    [sent EXCEPT !.received[websocket] = Append(@, text)])
         ELSE sent

\* mutant: the sender is not skipped
RECURSIVE send_loop_echo(_, _, _, _, _, _)
send_loop_echo(items, i, text, sender_websocket, writable, sent) ==
    IF i > Len(items) THEN sent
    ELSE LET websocket == items[i].ws IN
         IF writable[websocket]
         THEN send_loop_echo(items, i + 1, text, sender_websocket, writable,
                    [sent EXCEPT !.received[websocket] = Append(@, text)])
         ELSE send_loop_echo(items, i + 1, text, sender_websocket, writable,
                    [sent EXCEPT !.disconnected = Append(@, websocket)])

\* the for loop of broadcast (and, with no sender, of broadcast_system) from
\* item i on: send_text to every handle but the sender; a send raises exactly
\* when the transport of the handle is gone, and the handle is then noted
RECURSIVE send_loop(_, _, _, _, _, _)
send_loop(items, i, text, sender_websocket, writable, sent) ==
    IF i > Len(items) THEN sent
    ELSE LET websocket == items[i].ws IN
         IF websocket = sender_websocket
         THEN send_loop(items, i + 1, text, sender_websocket, writable, sent)
         ELSE IF writable[websocket]
         THEN send_loop(items, i + 1, text, sender_websocket, writable,
                    [sent EXCEPT !.received[websocket] = Append(@, text)])
         ELSE send_loop(items, i + 1, text, sender_websocket, writable,
                    [sent EXCEPT !.disconnected = Append(@, websocket)])

\* the clean-up loop: pop every noted handle
RECURSIVE clean_up(_, _)
clean_up(d, disconnected) ==
    IF disconnected = <<>> THEN d
    ELSE clean_up(dict_without(d, Head(disconnected)), Tail(disconnected))

\* ConnectionManager.broadcast: the dict afterwards and what was sent
broadcast(d, message, sender_websocket, writable) ==
    IF d = <<>>
    THEN [dict |-> d, sent |-> NothingSent]
    ELSE LET sent == send_loop(d, 1, message, sender_websocket, writable,
                               NothingSent)
         IN  [dict |-> clean_up(d, sent.disconnected), sent |-> sent]

\* ConnectionManager.broadcast_system
broadcast_system(d, message, writable) ==
    IF d = <<>>
    THEN [dict |-> d, sent |-> NothingSent]
    ELSE LET sent == send_loop(d, 1, "System: " \o message, NoSocket, writable,
                               NothingSent)
         IN  [dict |-> clean_up(d, sent.disconnected), sent |-> sent]

\* mutant: the username is looked up but the mapping is kept
disconnect_keep(d, websocket) ==
    [ret |-> dict_get(d, websocket), dict |-> d]

\* ConnectionManager.disconnect: pop(websocket, None)
disconnect(d, websocket) ==
    [ret |-> dict_get(d, websocket), dict |-> dict_without(d, websocket)]

(***************************************************************************)
(* SpecManager: the ConnectionManager driven through its methods, one call *)
(* at a time.  Every handle 1..NumSockets is a distinct WebSocket object;  *)
(* the peer of a handle can go away at any time after the handshake.       *)
(***************************************************************************)
InitMgrVars ==
    /\ active_connections = <<>>
    /\ accepted = {}
    /\ alive = [ws \in Sockets |-> TRUE]
    /\ call = [op |-> "none"]

\* await manager.connect(websocket, user.username); accept() is answered
\* once per handle, so a handle is connected at most once
Connect(websocket, username) ==
    /\ websocket \notin accepted
    /\ alive[websocket]
    /\ LET d == dict_set(active_connections, websocket, username)
           b == broadcast_system(d, username \o " joined the chat", alive)
       IN  /\ active_connections' = b.dict
           /\ call' = [op |-> "connect", ws |-> websocket, username |-> username,
                       text |-> "System: " \o username \o " joined the chat",
                       sender |-> NoSocket,
                       before |-> d, sent |-> b.sent]
    /\ accepted' = accepted \cup {websocket}
    /\ UNCHANGED alive

\* manager.disconnect(websocket), on any handle
Disconnect(websocket) ==
    /\ LET r == disconnect(active_connections, websocket)
       IN  /\ active_connections' = r.dict
           /\ call' = [op |-> "disconnect", ws |-> websocket, ret |-> r.ret,
                       before |-> active_connections,
                       again |-> (call.op = "disconnect" /\ call.ws = websocket),
                       first_ret |-> IF call.op = "disconnect" /\ call.ws = websocket
                                     THEN call.ret ELSE None]
    /\ UNCHANGED <<accepted, alive>>

\* await manager.broadcast(message, sender_websocket)
Broadcast(message, sender_websocket) ==
    /\ LET b == broadcast(active_connections, message, sender_websocket, alive)
       IN  /\ active_connections' = b.dict
           /\ call' = [op |-> "broadcast", text |-> message,
                       sender |-> sender_websocket,
                       before |-> active_connections, sent |-> b.sent]
    /\ UNCHANGED <<accepted, alive>>

\* await manager.broadcast_system(message)
BroadcastSystem(message) ==
    /\ LET b == broadcast_system(active_connections, message, alive)
       IN  /\ active_connections' = b.dict
           /\ call' = [op |-> "broadcast_system", text |-> "System: " \o message,
                       sender |-> NoSocket,
                       before |-> active_connections, sent |-> b.sent]
    /\ UNCHANGED <<accepted, alive>>

\* the peer of an accepted handle goes away: from now on send_text raises
TransportCloses(websocket) ==
    /\ websocket \in accepted
    /\ alive[websocket]
    /\ alive' = [alive EXCEPT ![websocket] = FALSE]
    /\ call' = [op |-> "none"]
    /\ UNCHANGED <<active_connections, accepted>>

NextManager ==
    \/ (\E ws \in Sockets : Connect(ws, UserOf(ws))) /\ UNCHANGED <<authVars, gwVars, apiVars>>
    \/ (\E ws \in Sockets : Disconnect(ws)) /\ UNCHANGED <<authVars, gwVars, apiVars>>
    \/ (\E ws \in Sockets \cup {NoSocket} :
            Broadcast(Frame(UserOf(ws), "hi"), ws)) /\ UNCHANGED <<authVars, gwVars, apiVars>>
    \/ (\E u \in Usernames : BroadcastSystem(u \o " left the chat"))
            /\ UNCHANGED <<authVars, gwVars, apiVars>>
    \/ (\E ws \in Sockets : TransportCloses(ws)) /\ UNCHANGED <<authVars, gwVars, apiVars>>

(***************************************************************************)
(* app/main.py: websocket_endpoint, one task per connection.               *)
(*                                                                         *)
(* A task runs from one await to the next in one step; the awaits are      *)
(* websocket.accept(), websocket.send_text() inside the broadcast loops    *)
(* and websocket.receive_text().  The broadcast loops iterate over         *)
(* active_connections itself, so the dict iterator is part of the state:   *)
(* it holds the size of the dict when the loop began (di_used), its place  *)
(* in the entries (di_pos) and the number of items still expected (len),   *)
(* and raises RuntimeError when the dict has changed size, or when it      *)
(* finds more items than it expected.  Removed entries keep their place in *)
(* dk_entries; the entries are compacted only by a sixth insertion, which  *)
(* the handles of this model never reach.                                  *)
(***************************************************************************)
Conns == 1 .. NumConns

\* the frames the clients type, each once and in this order, whoever types
Messages == <<"m1", "m2">>

Data(n) == Messages[n]

\* iter(d): a fresh iterator over the dict
dictiter_new(d) == [di_used |-> Len(d), di_pos |-> 1, len |-> Len(d)]

\* next(it): the next live entry at or after di_pos
dictiter_next(di, d, entries) ==
    IF di.di_used # Len(d)
    THEN [res |-> "RuntimeError"]
    ELSE LET rest == { j \in di.di_pos .. Len(entries) : entries[j] \in dict_keys(d) }
         IN  IF rest = {}
             THEN [res |-> "StopIteration"]
             ELSE IF di.len = 0
             THEN [res |-> "RuntimeError"]
             ELSE LET j == CHOOSE k \in rest : \A m \in rest : k <= m
                  IN  [res |-> "item", ws |-> entries[j],
                       di  |-> [di EXCEPT !.di_pos = j + 1, !.len = @ - 1]]

\* the head of the for loop: the next handle that is not the sender
RECURSIVE loop_next(_, _, _, _)
loop_next(di, d, entries, sender_websocket) ==
    LET r == dictiter_next(di, d, entries) IN
    IF r.res = "item" /\ r.ws = sender_websocket
    THEN loop_next(r.di, d, entries, sender_websocket)
    ELSE r

\* a broadcast loop entered on dict d: "if not self.active_connections:
\* return", else the first turn of the loop
loop_begin(d, entries, sender_websocket) ==
    IF d = <<>>
    THEN [res |-> "StopIteration"]
    ELSE loop_next(dictiter_new(d), d, entries, sender_websocket)

\* the except clause of websocket_endpoint that handles an exception;
\* an exception raised inside a handler leaves the function
except_clause(exc, in_handler) ==
    IF in_handler THEN "unhandled"
    ELSE IF exc = "HTTPException" THEN "close_1008"
    ELSE IF exc = "WebSocketDisconnect" THEN "disconnect"
    ELSE "close_1011"

\* the bare "except:" around send_text: what leaves it when the send raises
bare_except_reraise(exc) == exc

bare_except(exc) == None

\* one received frame is added to what a handle has received from a task
deliver_front(log, frame) == <<frame>> \o log

deliver(log, frame) == Append(log, frame)

JoinText(username) == "System: " \o username \o " joined the chat"

LeftText(username) == "System: " \o username \o " left the chat"

NoIter == [kind |-> "none"]

RECURSIVE TotalTyped(_, _)
TotalTyped(tasks, S) ==
    IF S = {} THEN 0
    ELSE LET ws == CHOOSE x \in S : TRUE
         IN  tasks[ws].typed + TotalTyped(tasks, S \ {ws})

NewTask ==
    [token     |-> NoToken,  \* the token of the query string
     username  |-> None,     \* user.username
     typed     |-> 0,        \* frames received from the client so far
     exc       |-> None,     \* the exception that ended the try block
     ended     |-> None,     \* the except clause the task ended in
     joined    |-> FALSE,    \* manager.connect has returned
     announced |-> {},       \* the handles Registered when the join announcement began
     failed    |-> FALSE,    \* a send of one of its chat broadcasts has raised
     lefts     |-> 0]        \* broadcast_system("... left the chat") calls

\* the tokens the client of ws may present: a good one for its user, the
\* same signed with another secret, and one of the wrong type
GoodToken(ws) == create_access_token([sub |-> UserOf(ws)], 0, 0)

GatewayTokens(ws) ==
    { GoodToken(ws),
      [GoodToken(ws) EXCEPT !.key = OtherKey],
      [GoodToken(ws) EXCEPT !.claims = [@ EXCEPT !["type"] = "refresh"]] }

InitGwVars ==
    /\ pc = [ws \in Conns |-> "start"]
    /\ task = [ws \in Conns |-> NewTask]
    /\ iter = [ws \in Conns |-> NoIter]
    /\ dk_entries = <<>>
    /\ rx = [r \in Conns |-> [s \in Conns |-> <<>>]]

\* the task of ws goes on after a turn of its loop with result r, on dict d
Resume(ws, it, r, d, tk) ==
    IF r.res = "item"
    THEN /\ pc' = [pc EXCEPT ![ws] = "send"]
         /\ iter' = [iter EXCEPT ![ws] = [it EXCEPT !.di = r.di, !.target = r.ws]]
         /\ active_connections' = d
         /\ task' = [task EXCEPT ![ws] = tk]
         /\ alive' = alive
    ELSE IF r.res = "StopIteration"
    THEN \* the clean-up loop, then back in websocket_endpoint
         /\ active_connections' = clean_up(d, it.disconnected)
         /\ iter' = [iter EXCEPT ![ws] = NoIter]
         /\ alive' = alive
         /\ IF it.kind = "left"
            THEN /\ pc' = [pc EXCEPT ![ws] = "done"]
                 /\ task' = [task EXCEPT ![ws] = [tk EXCEPT !.ended = "disconnect"]]
            ELSE /\ pc' = [pc EXCEPT ![ws] = "receive"]
                 /\ task' = [task EXCEPT ![ws] = [tk EXCEPT !.joined = TRUE]]
    ELSE \* an exception out of the for loop: no clean-up
         /\ active_connections' = d
         /\ iter' = [iter EXCEPT ![ws] = NoIter]
         /\ pc' = [pc EXCEPT ![ws] = "done"]
         /\ LET exc    == IF r.res = "raise" THEN r.exc ELSE r.res
                clause == except_clause(exc, it.kind = "left")
            IN
            /\ task' = [task EXCEPT ![ws] = [tk EXCEPT !.exc = exc, !.ended = clause]]
            /\ alive' = IF clause = "close_1011"
                        THEN [alive EXCEPT ![ws] = FALSE]   \* websocket.close
                        ELSE alive

\* the connection is accepted whatever verify_token_and_get_user answers
Start_accept_first(ws) ==
    /\ pc[ws] = "start"
    /\ \E tok \in GatewayTokens(ws) :
          /\ pc' = [pc EXCEPT ![ws] = "accept"]
          /\ task' = [task EXCEPT ![ws].token = tok, ![ws].username = UserOf(ws)]
          /\ alive' = alive
    /\ UNCHANGED <<active_connections, accepted, iter, dk_entries, rx>>

\* user = verify_token_and_get_user(token, db), up to await websocket.accept()
\* or, on HTTPException, to websocket.close(code=1008)
Start(ws) ==
    /\ pc[ws] = "start"
    /\ \E tok \in GatewayTokens(ws) :
          LET r == verify_token_and_get_user(tok, users, now) IN
          IF r.ok
          THEN /\ pc' = [pc EXCEPT ![ws] = "accept"]
               /\ task' = [task EXCEPT ![ws].token = tok,
                                       ![ws].username = r.user.username]
               /\ alive' = alive
          ELSE /\ pc' = [pc EXCEPT ![ws] = "done"]
               /\ task' = [task EXCEPT ![ws].token = tok,
                                       ![ws].exc = "HTTPException",
                                       ![ws].ended = except_clause("HTTPException", FALSE)]
               /\ alive' = [alive EXCEPT ![ws] = FALSE]
    /\ UNCHANGED <<active_connections, accepted, iter, dk_entries, rx>>

\* the join announcement leaves the joiner out
AcceptDone_exclude_joiner(ws) ==
    /\ pc[ws] = "accept"
    /\ accepted' = accepted \cup {ws}
    /\ dk_entries' = Append(dk_entries, ws)
    /\ LET d  == dict_set(active_connections, ws, task[ws].username)
           it == [kind |-> "join", sender |-> ws, disconnected |-> <<>>,
                  di |-> dictiter_new(<<>>), target |-> NoSocket,
                  frame |-> [text |-> JoinText(task[ws].username), n |-> 0]]
           tk == [task[ws] EXCEPT !.announced = dict_keys(d)]
       IN  Resume(ws, it, loop_begin(d, dk_entries', ws), d, tk)
    /\ UNCHANGED rx

\* manager.connect after accept(): the mapping is recorded, then
\* broadcast_system(f"{username} joined the chat") runs to its first send
AcceptDone(ws) ==
    /\ pc[ws] = "accept"
    /\ accepted' = accepted \cup {ws}
    /\ dk_entries' = Append(dk_entries, ws)
    /\ LET d  == dict_set(active_connections, ws, task[ws].username)
           it == [kind |-> "join", sender |-> NoSocket, disconnected |-> <<>>,
                  di |-> dictiter_new(<<>>), target |-> NoSocket,
                  frame |-> [text |-> JoinText(task[ws].username), n |-> 0]]
           tk == [task[ws] EXCEPT !.announced = dict_keys(d)]
       IN  Resume(ws, it, loop_begin(d, dk_entries', NoSocket), d, tk)
    /\ UNCHANGED rx

\* a send_text of the loop completes or raises, and the loop takes its next
\* turn
SendDone(ws) ==
    /\ pc[ws] = "send"
    /\ LET it  == iter[ws]
           ok  == alive[it.target]
           it1 == IF ok THEN it
                  ELSE [it EXCEPT !.disconnected = Append(@, it.target)]
           tk  == [task[ws] EXCEPT !.failed = @ \/ (~ ok /\ it.kind = "chat")]
       IN  /\ rx' = IF ok
                    THEN [rx EXCEPT ![it.target][ws] = deliver(@, it.frame)]
                    ELSE rx
           /\ Resume(ws, it1,
                     IF ~ ok /\ bare_except("SendError") # None
                     THEN [res |-> "raise", exc |-> bare_except("SendError")]
                     ELSE loop_next(it.di, active_connections, dk_entries, it.sender),
                     active_connections, tk)
    /\ UNCHANGED <<accepted, dk_entries>>

\* receive_text() returns a frame: manager.broadcast(f"{username}: {data}",
\* sender_websocket=websocket) runs to its first send
Receive(ws) ==
    /\ pc[ws] = "receive"
    /\ alive[ws]
    /\ TotalTyped(task, Conns) < Len(Messages)
    /\ LET n  == TotalTyped(task, Conns) + 1
           it == [kind |-> "chat", sender |-> ws, disconnected |-> <<>>,
                  di |-> dictiter_new(<<>>), target |-> NoSocket,
                  frame |-> [text |-> Frame(task[ws].username, Data(n)), n |-> n]]
           tk == [task[ws] EXCEPT !.typed = @ + 1]
       IN  Resume(ws, it, loop_begin(active_connections, dk_entries, ws),
                  active_connections, tk)
    /\ UNCHANGED <<accepted, dk_entries, rx>>

\* the leave announcement runs over the dict the handle is still in
ReceiveDisconnect_announce_first(ws) ==
    /\ pc[ws] = "receive"
    /\ ~ alive[ws]
    /\ LET clause == except_clause("WebSocketDisconnect", FALSE)
           res == disconnect(active_connections, ws)
           tk  == [task[ws] EXCEPT !.exc = "WebSocketDisconnect", !.ended = clause]
       IN  IF res.ret # None
           THEN LET it == [kind |-> "left", sender |-> NoSocket,
                           disconnected |-> <<>>,
                           di |-> dictiter_new(<<>>), target |-> NoSocket,
                           frame |-> [text |-> LeftText(res.ret), n |-> 0]]
                IN  Resume(ws, it,
                           loop_begin(active_connections, dk_entries, NoSocket),
                           active_connections, [tk EXCEPT !.lefts = @ + 1])
           ELSE /\ pc' = [pc EXCEPT ![ws] = "done"]
                /\ task' = [task EXCEPT ![ws] = tk]
                /\ active_connections' = res.dict
                /\ UNCHANGED <<iter, alive>>
    /\ UNCHANGED <<accepted, dk_entries, rx>>

\* receive_text() raises WebSocketDisconnect: manager.disconnect and, if it
\* returned a username, broadcast_system(f"{username} left the chat")
ReceiveDisconnect(ws) ==
    /\ pc[ws] = "receive"
    /\ ~ alive[ws]
    /\ LET clause == except_clause("WebSocketDisconnect", FALSE)
           res == disconnect(active_connections, ws)
           tk  == [task[ws] EXCEPT !.exc = "WebSocketDisconnect", !.ended = clause]
       IN  IF res.ret # None
           THEN LET it == [kind |-> "left", sender |-> NoSocket,
                           disconnected |-> <<>>,
                           di |-> dictiter_new(<<>>), target |-> NoSocket,
                           frame |-> [text |-> LeftText(res.ret), n |-> 0]]
                IN  Resume(ws, it, loop_begin(res.dict, dk_entries, NoSocket),
                           res.dict, [tk EXCEPT !.lefts = @ + 1])
           ELSE /\ pc' = [pc EXCEPT ![ws] = "done"]
                /\ task' = [task EXCEPT ![ws] = tk]
                /\ active_connections' = res.dict
                /\ UNCHANGED <<iter, alive>>
    /\ UNCHANGED <<accepted, dk_entries, rx>>

\* the client of an accepted connection goes away
ClientClose(ws) ==
    /\ ws \in accepted
    /\ alive[ws]
    /\ pc[ws] # "done"
    /\ alive' = [alive EXCEPT ![ws] = FALSE]
    /\ UNCHANGED <<active_connections, accepted, pc, task, iter, dk_entries, rx>>

(***************************************************************************)
(* app/main.py: the HTTP endpoints, one request at a time.                 *)
(*                                                                         *)
(* users and todos are the two tables, next_id the next primary key of     *)
(* the todo table, held the token the client got from its last login and   *)
(* resp the answer to the last request.  A todo row carries, besides its   *)
(* columns, the id of the user whose request created it (creator).         *)
(***************************************************************************)
\* from the issue of a token to the first instant at which it is expired
Lifetime == minutes(ACCESS_TOKEN_EXPIRE_MINUTES) + TicksPerSec

NoResp ==
    [op |-> "none", status |-> 0, detail |-> "", username |-> None,
     password |-> None, access_token |-> NoToken, presented |-> NoToken,
     user |-> 0, todo_id |-> 0, body |-> {}]

\* the fields a TodoCreate keeps of a request body
TodoCreate(body) ==
    [k \in DOMAIN body \cap {"title", "description", "due_time"} |-> body[k]]

\* the fields TodoUpdate.dict(exclude_unset=True) keeps of a request body
TodoUpdate(body) ==
    [k \in DOMAIN body \cap {"title", "description", "due_time", "completed"}
        |-> body[k]]

\* the bodies the clients send with POST /todos and PATCH /todos/{id}
CreateBodies ==
    { [title |-> "t1", due_time |-> 0],
      [title |-> "t1", due_time |-> 0, user_id |-> 1, completed |-> TRUE] }

UpdateBodies ==
    { [title |-> "t2", user_id |-> 1], [completed |-> TRUE, user_id |-> 2] }

\* for key, value in update_data.items(): setattr(todo, key, value)
setattrs(row, update_data) ==
    [k \in DOMAIN row |-> IF k \in DOMAIN update_data THEN update_data[k]
                                                      ELSE row[k]]

\* select(Todo).where(Todo.id == todo_id, Todo.user_id == user_id)
select_todo_any(table, todo_id, user_id) ==
    { td \in table : td.id = todo_id }

select_todo(table, todo_id, user_id) ==
    { td \in table : td.id = todo_id /\ td.user_id = user_id }

\* select(Todo).where(Todo.user_id == user_id)
select_todos(table, user_id) == { td \in table : td.user_id = user_id }

TodoIds == 1 .. MaxTodos

\* the bearer token a client presents: the one of its last login
Bearers == IF held.tok = NoToken THEN {} ELSE {held.tok}

Unauthorized(op, tok, a) ==
    [NoResp EXCEPT !.op = op, !.status = a.status, !.detail = a.detail,
                   !.presented = tok]

NotFound(op, tok, user, todo_id) ==
    [NoResp EXCEPT !.op = op, !.status = 404, !.detail = "Todo not found",
                   !.presented = tok, !.user = user.id, !.todo_id = todo_id]

Ok(op, tok, user, todo_id, body) ==
    [NoResp EXCEPT !.op = op, !.status = 200, !.presented = tok,
                   !.user = user.id, !.todo_id = todo_id, !.body = body]

\* POST /signup
post_signup_overwrite(username, password) ==
    /\ users' = { u \in users : u.username # username }
                 \cup {[id |-> IF get_user(users, username) # NoRow
                               THEN get_user(users, username).id
                               ELSE Cardinality(users) + 1,
                        username |-> username,
                        hashed_password |-> get_password_hash(password)]}
    /\ resp' = [NoResp EXCEPT !.op = "signup",
                              !.status = IF get_user(users, username) # NoRow
                                         THEN 400 ELSE 200,
                              !.username = username, !.password = password]
    /\ UNCHANGED <<now, held, todos, next_id>>

post_signup(username, password) ==
    LET existing_user == get_user(users, username) IN
    /\ IF existing_user # NoRow
       THEN /\ resp' = [NoResp EXCEPT !.op = "signup", !.status = 400,
                                      !.detail = "Username already registered",
                                      !.username = username,
                                      !.password = password]
            /\ users' = users
       ELSE /\ users' = users \cup {[id |-> Cardinality(users) + 1,
                                     username |-> username,
                                     hashed_password |-> get_password_hash(password)]}
            /\ resp' = [NoResp EXCEPT !.op = "signup", !.status = 200,
                                      !.username = username,
                                      !.password = password]
    /\ UNCHANGED <<now, held, todos, next_id>>

\* the token names the user by id, not by username
login_sub_id(username, password) ==
    LET user == get_user(users, username) IN
    /\ IF user = NoRow \/ ~ verify_password(password, user.hashed_password)
       THEN /\ resp' = [NoResp EXCEPT !.op = "login", !.status = 401,
                                      !.detail = "Incorrect username or password",
                                      !.username = username,
                                      !.password = password]
            /\ held' = held
       ELSE LET access_token == create_access_token([sub |-> ToString(user.id)], 0, now)
            IN  /\ resp' = [NoResp EXCEPT !.op = "login", !.status = 200,
                                          !.username = username,
                                          !.password = password,
                                          !.access_token = access_token]
                /\ held' = [tok |-> access_token, sub |-> username]
    /\ UNCHANGED <<now, users, todos, next_id>>

\* POST /login
login(username, password) ==
    LET user == get_user(users, username) IN
    /\ IF user = NoRow \/ ~ verify_password(password, user.hashed_password)
       THEN /\ resp' = [NoResp EXCEPT !.op = "login", !.status = 401,
                                      !.detail = "Incorrect username or password",
                                      !.username = username,
                                      !.password = password]
            /\ held' = held
       ELSE LET access_token == create_access_token([sub |-> user.username], 0, now)
            IN  /\ resp' = [NoResp EXCEPT !.op = "login", !.status = 200,
                                          !.username = username,
                                          !.password = password,
                                          !.access_token = access_token]
                /\ held' = [tok |-> access_token, sub |-> username]
    /\ UNCHANGED <<now, users, todos, next_id>>

\* POST /todos
create_todo(body) ==
    /\ next_id <= MaxTodos
    /\ \E tok \in Bearers :
          LET a == get_current_user(tok, users, now) IN
          IF ~ a.ok
          THEN /\ resp' = Unauthorized("create_todo", tok, a)
               /\ UNCHANGED <<todos, next_id>>
          ELSE LET todo == TodoCreate(body)
                   new_todo == [id |-> next_id, title |-> todo.title,
                                due_time |-> todo.due_time, completed |-> FALSE,
                                user_id |-> a.user.id, creator |-> a.user.id]
               IN  /\ todos' = todos \cup {new_todo}
                   /\ next_id' = next_id + 1
                   /\ resp' = Ok("create_todo", tok, a.user, new_todo.id, {new_todo})
    /\ UNCHANGED <<now, users, held>>

\* GET /todos: the three groups of the answer, as one set of rows
read_todos ==
    /\ \E tok \in Bearers :
          LET a == get_current_user(tok, users, now) IN
          IF ~ a.ok
          THEN resp' = Unauthorized("read_todos", tok, a)
          ELSE LET rows       == select_todos(todos, a.user.id)
                   completed  == { td \in rows : td.completed }
                   to_be_done == { td \in rows : ~ td.completed /\ td.due_time >= now }
                   overdue    == { td \in rows : ~ td.completed /\ td.due_time < now }
               IN  resp' = Ok("read_todos", tok, a.user, 0,
                              completed \cup to_be_done \cup overdue)
    /\ UNCHANGED <<now, users, held, todos, next_id>>

\* GET /todos/{todo_id}
read_todo(todo_id) ==
    /\ \E tok \in Bearers :
          LET a == get_current_user(tok, users, now) IN
          IF ~ a.ok
          THEN resp' = Unauthorized("read_todo", tok, a)
          ELSE LET found == select_todo(todos, todo_id, a.user.id) IN
               IF found = {}
               THEN resp' = NotFound("read_todo", tok, a.user, todo_id)
               ELSE resp' = Ok("read_todo", tok, a.user, todo_id, found)
    /\ UNCHANGED <<now, users, held, todos, next_id>>

\* PATCH /todos/{todo_id}
update_todo(todo_id, body) ==
    /\ \E tok \in Bearers :
          LET a == get_current_user(tok, users, now) IN
          IF ~ a.ok
          THEN /\ resp' = Unauthorized("update_todo", tok, a)
               /\ todos' = todos
          ELSE LET found == select_todo(todos, todo_id, a.user.id) IN
               IF found = {}
               THEN /\ resp' = NotFound("update_todo", tok, a.user, todo_id)
                    /\ todos' = todos
               ELSE LET todo == CHOOSE td \in found : TRUE
                        new  == setattrs(todo, TodoUpdate(body))
                    IN  /\ todos' = (todos \ {todo}) \cup {new}
                        /\ resp' = Ok("update_todo", tok, a.user, todo_id, {new})
    /\ UNCHANGED <<now, users, held, next_id>>

\* PATCH /todos/{todo_id}/complete
complete_todo(todo_id) ==
    /\ \E tok \in Bearers :
          LET a == get_current_user(tok, users, now) IN
          IF ~ a.ok
          THEN /\ resp' = Unauthorized("complete_todo", tok, a)
               /\ todos' = todos
          ELSE LET found == select_todo(todos, todo_id, a.user.id) IN
               IF found = {}
               THEN /\ resp' = NotFound("complete_todo", tok, a.user, todo_id)
                    /\ todos' = todos
               ELSE LET todo == CHOOSE td \in found : TRUE
                        new  == [todo EXCEPT !.completed = TRUE]
                    IN  /\ todos' = (todos \ {todo}) \cup {new}
                        /\ resp' = Ok("complete_todo", tok, a.user, todo_id, {new})
    /\ UNCHANGED <<now, users, held, next_id>>

\* DELETE /todos/{todo_id}
delete_todo(todo_id) ==
    /\ \E tok \in Bearers :
          LET a == get_current_user(tok, users, now) IN
          IF ~ a.ok
          THEN /\ resp' = Unauthorized("delete_todo", tok, a)
               /\ todos' = todos
          ELSE LET found == select_todo(todos, todo_id, a.user.id) IN
               IF found = {}
               THEN /\ resp' = NotFound("delete_todo", tok, a.user, todo_id)
                    /\ todos' = todos
               ELSE /\ todos' = todos \ found
                    /\ resp' = Ok("delete_todo", tok, a.user, todo_id, {})
    /\ UNCHANGED <<now, users, held, next_id>>

\* the clock passes the lifetime of the tokens issued so far
Later ==
    /\ now < Lifetime
    /\ now' = now + Lifetime
    /\ resp' = NoResp
    /\ UNCHANGED <<users, held, todos, next_id>>

InitApiVars ==
    /\ todos = {}
    /\ next_id = 1
    /\ resp = NoResp

InitApi == InitAuthVars /\ InitMgrVars /\ InitGwVars /\ InitApiVars

NextApi ==
    \/ (\E u \in Usernames, p \in Passwords : post_signup(u, p))
            /\ UNCHANGED <<heldExpired, last, mgrVars, gwVars>>
    \/ (\E u \in Usernames, p \in Passwords : login(u, p))
            /\ UNCHANGED <<heldExpired, last, mgrVars, gwVars>>
    \/ (\E body \in CreateBodies : create_todo(body))
            /\ UNCHANGED <<heldExpired, last, mgrVars, gwVars>>
    \/ read_todos /\ UNCHANGED <<heldExpired, last, mgrVars, gwVars>>
    \/ (\E id \in TodoIds : read_todo(id))
            /\ UNCHANGED <<heldExpired, last, mgrVars, gwVars>>
    \/ (\E id \in TodoIds, body \in UpdateBodies : update_todo(id, body))
            /\ UNCHANGED <<heldExpired, last, mgrVars, gwVars>>
    \/ (\E id \in TodoIds : complete_todo(id))
            /\ UNCHANGED <<heldExpired, last, mgrVars, gwVars>>
    \/ (\E id \in TodoIds : delete_todo(id))
            /\ UNCHANGED <<heldExpired, last, mgrVars, gwVars>>
    \/ Later /\ UNCHANGED <<heldExpired, last, mgrVars, gwVars>>

SpecApi == InitApi /\ [][NextApi]_vars

InitGateway ==
    /\ now = 0
    /\ users = { [id |-> 1, username |-> "alice",
                  hashed_password |-> get_password_hash("pw1")],
                 [id |-> 2, username |-> "bob",
                  hashed_password |-> get_password_hash("pw2")] }
    /\ held = [tok |-> NoToken, sub |-> None]
    /\ heldExpired = FALSE
    /\ last = [op |-> "none"]
    /\ active_connections = <<>>
    /\ accepted = {}
    /\ alive = [ws \in Conns |-> TRUE]
    /\ call = [op |-> "none"]
    /\ InitGwVars
    /\ InitApiVars

NextGateway ==
    \/ (\E ws \in Conns : Start(ws)) /\ UNCHANGED <<authVars, call, apiVars>>
    \/ (\E ws \in Conns : AcceptDone(ws)) /\ UNCHANGED <<authVars, call, apiVars>>
    \/ (\E ws \in Conns : SendDone(ws)) /\ UNCHANGED <<authVars, call, apiVars>>
    \/ (\E ws \in Conns : Receive(ws)) /\ UNCHANGED <<authVars, call, apiVars>>
    \/ (\E ws \in Conns : ReceiveDisconnect(ws))
            /\ UNCHANGED <<authVars, call, apiVars>>
    \/ (\E ws \in Conns : ClientClose(ws)) /\ UNCHANGED <<authVars, call, apiVars>>

SpecGateway == InitGateway /\ [][NextGateway]_vars

\* the event loop runs every task that can go on: a pending accept or send
\* completes or raises, and a closed connection makes receive_text raise;
\* what the clients do (connecting, typing, closing) is up to them
FairGateway ==
    /\ SpecGateway
    /\ \A ws \in Conns :
          /\ WF_vars(AcceptDone(ws) /\ UNCHANGED <<authVars, call, apiVars>>)
          /\ WF_vars(SendDone(ws) /\ UNCHANGED <<authVars, call, apiVars>>)
          /\ WF_vars(ReceiveDisconnect(ws) /\ UNCHANGED <<authVars, call, apiVars>>)

InitAuth == InitAuthVars /\ InitMgrVars /\ InitGwVars /\ InitApiVars

NextAuth ==
    \/ Tick /\ UNCHANGED <<mgrVars, gwVars, apiVars>>
    \/ (\E u \in Usernames, p \in Passwords : signup(u, p)) /\ UNCHANGED <<mgrVars, gwVars, apiVars>>
    \/ (\E S \in Usernames, T \in 0 .. MaxTTL : Issue(S, T)) /\ UNCHANGED <<mgrVars, gwVars, apiVars>>
    \/ VerifyHeld /\ UNCHANGED <<mgrVars, gwVars, apiVars>>
    \/ VerifyPresented /\ UNCHANGED <<mgrVars, gwVars, apiVars>>

SpecAuth == InitAuth /\ [][NextAuth]_vars

InitManager == InitAuthVars /\ InitMgrVars /\ InitGwVars /\ InitApiVars

SpecManager == InitManager /\ [][NextManager]_vars

(***************************************************************************)
(* Properties of the token service and of the two verification paths       *)
(* (checked under SpecAuth).                                               *)
(***************************************************************************)
Verified == last.op = "verify"

\* the presented token carries a signature that verifies under SECRET_KEY
SignedHere == last.tok.wf /\ last.tok.key = SECRET_KEY

\* the exp claim of the presented token lies in a whole second before the
\* current second of the verification clock
ExpPassed == /\ "exp" \in DOMAIN last.tok.claims
             /\ last.tok.claims["exp"] < now \div TicksPerSec

Kind(r) == IF r.ok THEN "ok" ELSE r.kind

\* C4: a token issued for subject S with a positive lifetime and verified at
\* the clock reading of its issue yields subject S and no error.
C4_RoundTrip ==
    (Verified /\ last.held /\ now = held.t)
        => (last.claims.ok /\ last.claims.subject = held.sub)

\* a token with a lifetime below one second, issued and verified inside the
\* same second
C4_Witness ==
    /\ Verified /\ last.held /\ now = held.t
    /\ held.ttl = 1 /\ now % TicksPerSec = 0
    /\ last.claims.ok

\* C5 as stated: every token whose exp is in the past is answered Expired,
\* whether or not its signature is valid.
C5_ExpiredWhateverSignature ==
    (Verified /\ last.tok.wf /\ ExpPassed)
        => (Kind(last.http) = "Expired" /\ Kind(last.ws) = "Expired")

\* C5 as amended: a token whose signature verifies under the configured
\* secret and whose exp lies in an earlier whole second than the clock is
\* answered Expired on both paths whatever its other claims; a token whose
\* signature does not verify is answered Malformed even when its exp passed.
C5_ExpiredWhenSigned ==
    /\ (Verified /\ SignedHere /\ ExpPassed)
          => /\ Kind(last.claims) = "Expired"
             /\ Kind(last.http) = "Expired" /\ last.http.detail = "Token has expired"
             /\ Kind(last.ws) = "Expired" /\ last.ws.detail = "Token has expired"
    /\ (Verified /\ last.tok.wf /\ ~ SignedHere /\ ExpPassed)
          => (Kind(last.http) = "Malformed" /\ Kind(last.ws) = "Malformed")

\* a correctly signed, expired token of the wrong type without a subject
C5_Witness ==
    /\ Verified /\ SignedHere /\ ExpPassed
    /\ Get(last.tok.claims, "type") = "refresh"
    /\ Get(last.tok.claims, "sub") = None
    /\ Kind(last.http) = "Expired"

\* C6: a token signed with another secret is rejected as Malformed on both
\* paths, whatever its claims.
C6_WrongSecretMalformed ==
    (Verified /\ last.tok.wf /\ last.tok.key # SECRET_KEY)
        => /\ Kind(last.claims) = "Malformed"
           /\ Kind(last.http) = "Malformed"
           /\ last.http.detail = "Could not validate credentials"
           /\ Kind(last.ws) = "Malformed"
           /\ last.ws.detail = "Could not validate credentials"

\* a token signed with the other secret that is also expired, of the wrong
\* type and without a subject
C6_Witness ==
    /\ Verified /\ last.tok.wf /\ last.tok.key = OtherKey
    /\ ExpPassed
    /\ Get(last.tok.claims, "type") = "refresh"
    /\ Get(last.tok.claims, "sub") = None
    /\ Kind(last.http) = "Malformed"

\* the first failing check of a presented token, in the order signature,
\* expiry, type tag, subject, read off the token itself
FirstFailure ==
    IF ~ SignedHere THEN "Malformed"
    ELSE IF ExpPassed THEN "Expired"
    ELSE IF Get(last.tok.claims, "type") # "access" THEN "WrongType"
    ELSE IF Get(last.tok.claims, "sub") = None THEN "MissingSubject"
    ELSE "ok"

\* C7: the checks are applied in the order signature, expiry, type tag,
\* subject, and a token with several defects is answered with the first
\* failing check, on both paths.
C7_CheckOrder ==
    Verified =>
        /\ Kind(last.claims) = FirstFailure
        /\ FirstFailure # "ok" => Kind(last.http) = FirstFailure
        /\ FirstFailure # "ok" => Kind(last.ws) = FirstFailure
        /\ Kind(last.http) = "MissingSubject" =>
              (SignedHere /\ ~ ExpPassed /\ Get(last.tok.claims, "type") = "access")

\* a correctly signed, unexpired token of the wrong type without a subject
C7_Witness ==
    /\ Verified /\ SignedHere /\ ~ ExpPassed
    /\ Get(last.tok.claims, "type") = "refresh"
    /\ Get(last.tok.claims, "sub") = None
    /\ Kind(last.http) = "WrongType"

HeldUserExists == get_user(users, held.sub) # NoRow

Accepts(r, username) == r.ok /\ r.user.username = username

\* C8 as stated: the held token verifies at every reading before t+T and is
\* answered Expired at every reading after t+T; once answered Expired it is
\* never accepted again; a fresh token verifies immediately.
C8_ExpiresAtDeadline ==
    (Verified /\ last.held) =>
        /\ (now < held.t + held.ttl /\ HeldUserExists)
              => (Accepts(last.http, held.sub) /\ Accepts(last.ws, held.sub))
        /\ now > held.t + held.ttl
              => (Kind(last.http) = "Expired" /\ Kind(last.ws) = "Expired")
        /\ heldExpired
              => (Kind(last.http) = "Expired" /\ Kind(last.ws) = "Expired")
        /\ (now = held.t /\ HeldUserExists)
              => (Accepts(last.http, held.sub) /\ Accepts(last.ws, held.sub))

\* C8 as amended: the held token verifies at every reading before t+T and is
\* answered Expired at every reading whose whole second is later than the
\* whole second of t+T (readings after t+T inside that second still verify);
\* once answered Expired it is never accepted again; a fresh token verifies
\* immediately.
C8_ExpiresAfterDeadlineSecond ==
    (Verified /\ last.held) =>
        /\ (now < held.t + held.ttl /\ HeldUserExists)
              => (Accepts(last.http, held.sub) /\ Accepts(last.ws, held.sub))
        /\ now \div TicksPerSec > (held.t + held.ttl) \div TicksPerSec
              => (Kind(last.http) = "Expired" /\ Kind(last.ws) = "Expired")
        /\ heldExpired
              => (Kind(last.http) = "Expired" /\ Kind(last.ws) = "Expired")
        /\ (now = held.t /\ HeldUserExists)
              => (Accepts(last.http, held.sub) /\ Accepts(last.ws, held.sub))

\* the held token was answered Expired, a fresh one was issued for the same
\* subject and is accepted at the reading of its issue
C8_Witness ==
    /\ Verified /\ last.held /\ held.afterExpiry
    /\ now = held.t
    /\ Accepts(last.http, held.sub)

\* the rejection as the caller sees it on each path
Rejection(r) == [status |-> r.status, detail |-> r.detail, headers |-> r.headers]

\* C9: on each path, two tokens rejected for different failure kinds are
\* rejected with different rejection values.
C9_DistinctRejections ==
    Verified =>
        \A tok2 \in PresentedTokens :
            LET h2 == get_current_user(tok2, users, now)
                w2 == verify_token_and_get_user(tok2, users, now)
            IN  /\ (~ last.http.ok /\ ~ h2.ok /\ h2.kind # last.http.kind)
                      => Rejection(h2) # Rejection(last.http)
                /\ (~ last.ws.ok /\ ~ w2.ok /\ w2.kind # last.ws.kind)
                      => Rejection(w2) # Rejection(last.ws)

\* C10: the two paths make the same decision: both accept the same
\* principal, or both reject, and they sort rejected tokens into the same
\* failure kinds (two tokens share a rejection on one path exactly when they
\* share one on the other).
C10_SameDecision ==
    Verified =>
        /\ last.http.ok = last.ws.ok
        /\ last.http.ok => last.http.user = last.ws.user
        /\ \A tok2 \in PresentedTokens :
              LET h2 == get_current_user(tok2, users, now)
                  w2 == verify_token_and_get_user(tok2, users, now)
              IN  (~ last.http.ok /\ ~ h2.ok /\ ~ last.ws.ok /\ ~ w2.ok)
                    => ((Rejection(h2) = Rejection(last.http))
                          <=> (Rejection(w2) = Rejection(last.ws)))

(***************************************************************************)
(* Properties of the ConnectionManager (checked under SpecManager).        *)
(***************************************************************************)
\* the call just made ran a broadcast pass
Pass == call.op \in {"broadcast", "broadcast_system", "connect"}

\* the handles the pass had to send to, and those among them whose send failed
Targets == dict_keys(call.before) \ {call.sender}
Failing == { ws \in Targets : ~ alive[ws] }

\* C1: when sends fail during a broadcast pass (broadcast or
\* broadcast_system), every other Registered, non-excluded connection still
\* receives the message in that pass, and no failing connection is in
\* active_connections when the call returns.
C1_FailureContained ==
    (Pass /\ Failing # {}) =>
        /\ \A ws \in Targets \ Failing : call.sent.received[ws] = <<call.text>>
        /\ \A ws \in Failing : ws \notin dict_keys(active_connections)
        /\ \A ws \in Targets \ Failing : ws \in dict_keys(active_connections)

\* three Registered connections, a broadcast to all of them, one send fails
\* and the other two connections receive the message
C1_Witness ==
    /\ call.op = "broadcast" /\ call.sender = NoSocket
    /\ Cardinality(Targets) = 3
    /\ Cardinality(Failing) = 1
    /\ \A ws \in Targets \ Failing : call.sent.received[ws] = <<call.text>>
    /\ Len(active_connections) = 2

\* C2: broadcast(m, x) with no failing send delivers m verbatim exactly once
\* to every Registered connection other than x, nothing to x or to anyone
\* else, and leaves the registry as it was.
C2_BroadcastDelivery ==
    (call.op = "broadcast" /\ Failing = {}) =>
        /\ \A ws \in Sockets :
              call.sent.received[ws] = IF ws \in Targets THEN <<call.text>> ELSE <<>>
        /\ active_connections = call.before

\* A = alice and B = bob registered, broadcast("bob: hi", exclude = B):
\* A receives "bob: hi", B receives nothing
C2_Witness ==
    /\ call.op = "broadcast"
    /\ call.before = << [ws |-> 1, username |-> "alice"],
                        [ws |-> 2, username |-> "bob"] >>
    /\ call.text = "bob: hi" /\ call.sender = 2
    /\ call.sent.received[1] = <<"bob: hi">>
    /\ call.sent.received[2] = <<>>

\* C3: disconnect on a Registered handle removes its mapping (and only it)
\* and returns its username; on a handle that is not Registered, and so on
\* every repeated call, it returns None and leaves active_connections
\* unchanged.
C3_DisconnectIdempotent ==
    call.op = "disconnect" =>
        /\ call.ws \in dict_keys(call.before) =>
              \E k \in DOMAIN call.before :
                  /\ call.before[k] = [ws |-> call.ws, username |-> call.ret]
                  /\ call.ret # None
                  /\ Len(active_connections) = Len(call.before) - 1
                  /\ \A i \in DOMAIN active_connections :
                        active_connections[i] =
                            call.before[IF i < k THEN i ELSE i + 1]
        /\ call.ws \notin dict_keys(call.before) =>
              (call.ret = None /\ active_connections = call.before)
        /\ call.again =>
              (call.ret = None /\ active_connections = call.before)

\* disconnect called twice in a row on a Registered handle while another
\* connection stays Registered: the first call returned the username, the
\* second returns None
C3_Witness ==
    /\ call.op = "disconnect" /\ call.again
    /\ call.first_ret = "alice"
    /\ call.ret = None
    /\ active_connections # <<>>

(***************************************************************************)
(* The realtime gateway: claims C11 to C13, C15 to C18 and C20             *)
(***************************************************************************)
Registered == dict_keys(active_connections)

HasFrame(log, text) == \E i \in 1 .. Len(log) : log[i].text = text

\* the frames a task has caused, whoever received them
Caused(ws) == { r \in Conns : rx[r][ws] # <<>> }

TokenFails(ws) ==
    /\ task[ws].token # NoToken
    /\ ~ verify_token_and_get_user(task[ws].token, users, now).ok

\* C11: a connection whose token fails verification is closed with the
\* policy-violation code and is never registered: its handle was never
\* put into active_connections, it was never accepted, and no connection
\* has received any frame because of it.
C11_RejectedNeverRegisters ==
    \A ws \in Conns :
        TokenFails(ws) =>
            /\ pc[ws] = "done"
            /\ task[ws].ended = "close_1008"
            /\ ws \notin accepted
            /\ \A i \in 1 .. Len(dk_entries) : dk_entries[i] # ws
            /\ task[ws].announced = {}
            /\ Caused(ws) = {}

C11_Witness ==
    \E ws \in Conns, o \in Conns :
        /\ TokenFails(ws)
        /\ task[ws].ended = "close_1008"
        /\ o # ws
        /\ task[o].joined
        /\ o \in Registered
        /\ alive[o]

\* C12: whenever the gateway task of a connection has terminated, for
\* whatever reason, its handle is not in active_connections.
C12_TerminatedNotRegistered ==
    \A ws \in Conns : pc[ws] = "done" => ws \notin Registered

\* C13: the chat frames a connection has received from one sender are in
\* the order in which the sender submitted them.
C13_PerSenderOrder ==
    \A r \in Conns, s \in Conns :
        \A i \in 1 .. Len(rx[r][s]), j \in 1 .. Len(rx[r][s]) :
            (i < j /\ rx[r][s][i].n > 0 /\ rx[r][s][j].n > 0)
                => rx[r][s][i].n < rx[r][s][j].n

C13_Witness ==
    \E r \in Conns, s \in Conns :
        /\ r # s
        /\ HasFrame(rx[r][s], Frame(task[s].username, Data(1)))
        /\ HasFrame(rx[r][s], Frame(task[s].username, Data(2)))

\* C15: a register or unregister by another task while a broadcast is
\* suspended in a send raises no error in the broadcasting task: no task
\* ever leaves its try block with the RuntimeError of the dict iterator.
C15_NoErrorInBroadcaster ==
    \A ws \in Conns : task[ws].exc # "RuntimeError"

\* C16: the mapping is recorded before the join announcement is sent and
\* the announcement leaves nobody out: the joiner is among the handles
\* Registered when the announcement begins, nothing is received because of
\* a handle that was not recorded first, and when connect has returned every
\* handle Registered at announce time that can still be written to has
\* received "System: <username> joined the chat", the joiner included.
C16_RecordedThenAnnounced ==
    \A ws \in Conns :
        /\ Caused(ws) # {} =>
              \E i \in 1 .. Len(dk_entries) : dk_entries[i] = ws
        /\ ws \in accepted => ws \in task[ws].announced
        /\ task[ws].joined =>
              \A r \in task[ws].announced :
                  alive[r] => HasFrame(rx[r][ws], JoinText(task[ws].username))

C16_Witness ==
    \E ws \in Conns, o \in Conns :
        /\ o # ws
        /\ task[ws].joined
        /\ task[ws].announced = {o, ws}
        /\ HasFrame(rx[ws][ws], JoinText(task[ws].username))
        /\ HasFrame(rx[o][ws], JoinText(task[ws].username))

\* C17: a Registered connection that can no longer be written to is
\* eventually removed from active_connections.
C17_DeadEventuallyRemoved ==
    \A ws \in Conns :
        (ws \in Registered /\ ~ alive[ws]) ~> (ws \notin Registered)

\* C18: a send that fails inside a chat broadcast does not reach the
\* broadcaster: its task never ends with the exception of the send, and
\* unless the task has ended for another reason (its own connection went
\* away, or the dict iterator raised, see C15) it is still Registered and in
\* its loop, sending the rest of the broadcast or waiting for its next frame.
C18_SendFailureContained ==
    \A ws \in Conns :
        /\ task[ws].exc # "SendError"
        /\ (task[ws].failed /\ alive[ws] /\ task[ws].exc # "RuntimeError") =>
              /\ task[ws].exc = None
              /\ pc[ws] \in {"send", "receive"}
              /\ ws \in Registered

C18_Witness ==
    \E ws \in Conns, o \in Conns :
        /\ task[ws].failed
        /\ alive[ws]
        /\ pc[ws] = "receive"
        /\ task[ws].typed >= 1
        /\ o # ws
        /\ ~ alive[o]
        /\ o \notin Registered
        /\ ws \in Registered

\* C20: "System: <username> left the chat" is broadcast at most once for a
\* connection, only after connect had returned for it, and never to the
\* connection that left; a connection that was never registered causes no
\* such broadcast.
C20_LeftOnceAfterJoin ==
    \A ws \in Conns :
        /\ task[ws].lefts <= 1
        /\ task[ws].lefts = 1 => task[ws].joined
        /\ (iter[ws].kind = "left" /\ pc[ws] = "send") => iter[ws].target # ws
        /\ ~ HasFrame(rx[ws][ws], LeftText(UserOf(ws)))
        /\ (\A i \in 1 .. Len(dk_entries) : dk_entries[i] # ws) =>
              /\ task[ws].lefts = 0
              /\ \A r \in Conns : ~ HasFrame(rx[r][ws], LeftText(UserOf(ws)))

C20_Witness ==
    \E ws \in Conns, o \in Conns :
        /\ o # ws
        /\ task[ws].lefts = 1
        /\ pc[ws] = "done"
        /\ HasFrame(rx[o][ws], LeftText(task[ws].username))

(***************************************************************************)
(* The HTTP endpoints: claims C14 and C19                                  *)
(***************************************************************************)
\* the user whose username and password are those of the request
Account(table, username, password) ==
    { u \in table : u.username = username
                    /\ u.hashed_password = <<"bcrypt", password>> }

\* a token is presented within ACCESS_TOKEN_EXPIRE_MINUTES of its issue
Within(tok) ==
    timegm(now) - tok.claims["iat"] <= ACCESS_TOKEN_EXPIRE_MINUTES * 60

\* C14: signup, login and authenticated use compose.  A signup of a free
\* username stores the user with that password; a signup of a registered
\* username is answered 400 and leaves the users as they are; a login with
\* the username and password of a stored user returns an access token; and
\* that token, presented to POST /todos within its lifetime, is accepted and
\* creates one todo whose user_id is the id of the user who logged in.
C14_SignupLoginCompose ==
    [][ /\ resp'.op = "signup" =>
              IF get_user(users, resp'.username) # NoRow
              THEN resp'.status = 400 /\ users' = users
              ELSE /\ resp'.status = 200
                   /\ Account(users', resp'.username, resp'.password) # {}
        /\ (resp'.op = "login"
              /\ Account(users, resp'.username, resp'.password) # {}) =>
              /\ resp'.status = 200
              /\ resp'.access_token # NoToken
              /\ held' = [tok |-> resp'.access_token, sub |-> resp'.username]
        /\ (resp'.op = "create_todo" /\ resp'.presented = held.tok
              /\ Within(held.tok)) =>
              /\ resp'.status = 200
              /\ \E td \in todos' \ todos :
                    /\ todos' = todos \cup {td}
                    /\ resp'.body = {td}
                    /\ td.user_id = get_user(users, held.sub).id
      ]_vars

C14_Witness ==
    /\ resp.op = "create_todo"
    /\ resp.status = 200
    /\ held.sub = "bob"
    /\ resp.user = get_user(users, "bob").id
    /\ \E td \in todos : resp.body = {td} /\ td.user_id = resp.user

\* C19: todo ownership isolation.  No request changes the user_id of a
\* todo, which stays the id of the user who created it; a request of a user
\* for a todo owned by another user is answered 404 and leaves the todos as
\* they are; GET /todos returns the todos of the requesting user only.
C19_OwnershipIsolation ==
    [][ /\ \A td \in todos, td2 \in todos' :
              td2.id = td.id => td2.user_id = td.user_id
        /\ \A td \in todos' : td.user_id = td.creator
        /\ (resp'.op \in {"read_todo", "update_todo", "complete_todo", "delete_todo"}
              /\ resp'.status # 401
              /\ \E td \in todos : td.id = resp'.todo_id /\ td.user_id # resp'.user) =>
              /\ resp'.status = 404
              /\ todos' = todos
        /\ (resp'.op = "read_todos" /\ resp'.status = 200) =>
              resp'.body = { td \in todos : td.user_id = resp'.user }
      ]_vars

C19_Witness ==
    /\ resp.op \in {"update_todo", "delete_todo"}
    /\ resp.status = 404
    /\ \E td \in todos : td.id = resp.todo_id /\ td.user_id # resp.user
    /\ \E td \in todos : td.user_id = resp.user

====
